---- MODULE Spec2Model ----
(***************************************************************************)
(* CBC-Agent analytics ingest API: the privacy transformation pipeline     *)
(* (packages/ingest-api/app/privacy.py), the ingestion and webhook         *)
(* handlers (packages/ingest-api/app/main.py), the persistence layer       *)
(* (packages/ingest-api/app/database.py) and the envelope schemas          *)
(* (packages/shared/src/python_schemas.py).                                *)
(*                                                                         *)
(* Texts are tuples of one-character strings, so that the regular          *)
(* expressions of privacy.py can be run on them character by character.    *)
(***************************************************************************)
EXTENDS Integers, Sequences, FiniteSets, TLC

\* ------------------------------------------------------------------------
\* Bounds of the model
\* ------------------------------------------------------------------------
\* longest text handed to redact_pii, counted in tokens of TextTokens
MaxTokens == 4

\* ------------------------------------------------------------------------
\* Character classes of Python's re module (ASCII part)
\* ------------------------------------------------------------------------
Digits == {"0", "1", "2", "3", "4", "5", "6", "7", "8", "9"}
Lower == {"a", "b", "c", "d", "e", "f", "g", "h", "i", "j", "k", "l", "m",
          "n", "o", "p", "q", "r", "s", "t", "u", "v", "w", "x", "y", "z"}
Upper == {"A", "B", "C", "D", "E", "F", "G", "H", "I", "J", "K", "L", "M",
          "N", "O", "P", "Q", "R", "S", "T", "U", "V", "W", "X", "Y", "Z"}
\* \w
WordChars == Digits \cup Lower \cup Upper \cup {"_"}
\* \s
SpaceChars == {" ", "\t", "\n", "\r", "\f"}

\* the bracket expressions of the four patterns
ClassOf(name) ==
    CASE name = "digit"     -> Digits                                   \* \d
      [] name = "local"     -> Digits \cup Lower \cup Upper \cup {".", "_", "%", "+", "-"}
      [] name = "domain"    -> Digits \cup Lower \cup Upper \cup {".", "-"}
      [] name = "tld"       -> Lower \cup Upper \cup {"|"}              \* [A-Z|a-z]
      [] name = "sep"       -> {"-", "."} \cup SpaceChars               \* [-.\s]
      [] name = "ccsep"     -> {"-"} \cup SpaceChars                    \* [-\s]
      [] name = "at"        -> {"@"}
      [] name = "dot"       -> {"."}
      [] name = "plus"      -> {"+"}
      [] name = "one"       -> {"1"}
      [] name = "lparen"    -> {"("}
      [] name = "rparen"    -> {")"}
      [] name = "dash"      -> {"-"}

\* ------------------------------------------------------------------------
\* A backtracking matcher with the priorities of Python's re
\* ------------------------------------------------------------------------
\* pattern items:  Bnd = \b ; Cls(c, lo, hi) = greedy c{lo,hi} ;
\*                 Opt(items) = greedy (?:items)?
Unbounded == 0 - 1
Bnd == [op |-> "bnd"]
Cls(c, lo, hi) == [op |-> "cls", c |-> c, lo |-> lo, hi |-> hi]
One(c) == Cls(c, 1, 1)
Opt(items) == [op |-> "opt", items |-> items]

IsWordAt(s, i) == i >= 1 /\ i <= Len(s) /\ s[i] \in WordChars

\* \b between position i-1 and i (i is the index of the next character)
Boundary(s, i) == IsWordAt(s, i - 1) # IsWordAt(s, i)

RECURSIVE RunLen(_, _, _, _)
\* number of consecutive characters of class cs from position i, at most hi
RunLen(s, i, cs, hi) ==
    IF hi = 0 \/ i > Len(s) \/ s[i] \notin cs THEN 0
    ELSE 1 + RunLen(s, i + 1, cs, IF hi = Unbounded THEN Unbounded ELSE hi - 1)

RECURSIVE Ends(_, _, _, _)
RECURSIVE EndsFrom(_, _, _, _, _)
RECURSIVE EndsCls(_, _, _, _, _, _)

\* the positions at which items k.. of the pattern can end when started at i,
\* in the order in which a backtracking engine tries them
Ends(items, k, s, i) ==
    IF k > Len(items) THEN <<i>>
    ELSE LET it == items[k] IN
         CASE it.op = "bnd" ->
                IF Boundary(s, i) THEN Ends(items, k + 1, s, i) ELSE <<>>
           [] it.op = "cls" ->
                EndsCls(items, k, s, i, RunLen(s, i, ClassOf(it.c), it.hi), it.lo)
           [] it.op = "opt" ->
                EndsFrom(items, k, s, Ends(it.items, 1, s, i), 1)
                    \o Ends(items, k + 1, s, i)

\* greedy repetition: the longest run first, then shorter ones down to lo
EndsCls(items, k, s, i, n, lo) ==
    IF n < lo THEN <<>>
    ELSE Ends(items, k + 1, s, i + n) \o EndsCls(items, k, s, i, n - 1, lo)

\* continue the pattern after each end of an optional group, in order
EndsFrom(items, k, s, es, j) ==
    IF j > Len(es) THEN <<>>
    ELSE Ends(items, k + 1, s, es[j]) \o EndsFrom(items, k, s, es, j + 1)

\* the end the engine reports for a match starting at i; 0 when there is none
MatchEnd(pattern, s, i) ==
    LET es == Ends(pattern, 1, s, i) IN IF es = <<>> THEN 0 ELSE es[1]

RECURSIVE SubFrom(_, _, _, _)
\* pattern.sub(repl, s): leftmost non-overlapping matches, scanned from i
SubFrom(pattern, repl, s, i) ==
    IF i > Len(s) THEN <<>>
    ELSE LET e == MatchEnd(pattern, s, i) IN
         IF e > i THEN repl \o SubFrom(pattern, repl, s, e)
         ELSE <<s[i]>> \o SubFrom(pattern, repl, s, i + 1)

sub(pattern, repl, s) == SubFrom(pattern, repl, s, 1)

\* ------------------------------------------------------------------------
\* privacy.py: PII patterns and redact_pii
\* ------------------------------------------------------------------------
EMAIL_PATTERN ==
    << Bnd, Cls("local", 1, Unbounded), One("at"), Cls("domain", 1, Unbounded),
       One("dot"), Cls("tld", 2, Unbounded), Bnd >>

PHONE_PATTERN ==
    << Bnd, Opt(<< Cls("plus", 0, 1), One("one"), Cls("sep", 0, 1) >>),
       Cls("lparen", 0, 1), Cls("digit", 3, 3), Cls("rparen", 0, 1),
       Cls("sep", 0, 1), Cls("digit", 3, 3), Cls("sep", 0, 1),
       Cls("digit", 4, 4), Bnd >>

SSN_PATTERN ==
    << Bnd, Cls("digit", 3, 3), One("dash"), Cls("digit", 2, 2), One("dash"),
       Cls("digit", 4, 4), Bnd >>

CC_PATTERN ==
    << Bnd, Cls("digit", 4, 4), Cls("ccsep", 0, 1), Cls("digit", 4, 4),
       Cls("ccsep", 0, 1), Cls("digit", 4, 4), Cls("ccsep", 0, 1),
       Cls("digit", 4, 4), Bnd >>

EMAIL_REDACTED ==
    <<"[", "E", "M", "A", "I", "L", "_", "R", "E", "D", "A", "C", "T", "E", "D", "]">>
PHONE_REDACTED ==
    <<"[", "P", "H", "O", "N", "E", "_", "R", "E", "D", "A", "C", "T", "E", "D", "]">>
SSN_REDACTED ==
    <<"[", "S", "S", "N", "_", "R", "E", "D", "A", "C", "T", "E", "D", "]">>
CC_REDACTED ==
    <<"[", "C", "C", "_", "R", "E", "D", "A", "C", "T", "E", "D", "]">>

\* a placeholder written without its brackets
Unbracketed(p) == SubSeq(p, 2, Len(p) - 1)

\* redact_pii with placeholders that are not bracketed
redact_pii_unbracketed(text) ==
    IF text = <<>> THEN text
    ELSE sub(CC_PATTERN, Unbracketed(CC_REDACTED),
         sub(SSN_PATTERN, Unbracketed(SSN_REDACTED),
         sub(PHONE_PATTERN, Unbracketed(PHONE_REDACTED),
         sub(EMAIL_PATTERN, Unbracketed(EMAIL_REDACTED), text))))

\* redact_pii: emails, then phone numbers, then SSN-like, then card numbers
redact_pii(text) ==
    IF text = <<>> THEN text
    ELSE sub(CC_PATTERN, CC_REDACTED,
         sub(SSN_PATTERN, SSN_REDACTED,
         sub(PHONE_PATTERN, PHONE_REDACTED,
         sub(EMAIL_PATTERN, EMAIL_REDACTED, text))))

\* ------------------------------------------------------------------------
\* Texts handed to redact_pii
\* ------------------------------------------------------------------------
TextTokens ==
    { <<"a">>, <<"@", "a", ".", "c", "o">>, <<"5", "5", "5">>,
      <<"1", "2", "3", "4">>, <<"-", "1", "2", "-">>, <<"-">>, <<" ">>,
      <<"(">> }

RECURSIVE TextsOf(_)
\* the texts made of exactly n tokens
TextsOf(n) ==
    IF n = 0 THEN {<<>>}
    ELSE {t \o u : t \in TextTokens, u \in TextsOf(n - 1)}

Texts == UNION {TextsOf(n) : n \in 0..MaxTokens}

\* ------------------------------------------------------------------------
\* JSON values: scalars, maps (entries in insertion order) and lists
\* ------------------------------------------------------------------------
Str(s) == [t |-> "str", s |-> s]
Num(n) == [t |-> "num", n |-> n]
Map(es) == [t |-> "map", es |-> es]
List(xs) == [t |-> "list", xs |-> xs]
Entry(k, v) == [k |-> k, v |-> v]

Range(f) == {f[i] : i \in DOMAIN f}

KeysOf(m) == {m.es[i].k : i \in 1..Len(m.es)}
ValueAt(m, key) == (CHOOSE i \in 1..Len(m.es) : m.es[i].k = key)
Get(m, key) == m.es[ValueAt(m, key)].v

\* ------------------------------------------------------------------------
\* privacy.py: redact_json
\* ------------------------------------------------------------------------
REDACTED == <<"[", "R", "E", "D", "A", "C", "T", "E", "D", "]">>

\* the default of fields_to_redact
DefaultFields == {"email", "phone", "name", "address", "ssn", "credit_card"}

RECURSIVE redact_json(_, _)
RECURSIVE redact_entries(_, _, _)
RECURSIVE redact_items(_, _, _)

\* one element of a list value: maps are redacted, strings go through
\* redact_pii, every other element (a list included) is kept as it is
redact_item(item, fields_to_redact) ==
    CASE item.t = "map" -> redact_json(item, fields_to_redact)
      [] item.t = "str" -> Str(redact_pii(item.s))
      [] OTHER -> item

redact_items(xs, i, fields_to_redact) ==
    IF i > Len(xs) THEN <<>>
    ELSE <<redact_item(xs[i], fields_to_redact)>>
             \o redact_items(xs, i + 1, fields_to_redact)

\* one key/value pair of the loop over data.items()
redact_value(key, value, fields_to_redact) ==
    CASE key \in fields_to_redact -> Str(REDACTED)
      [] key \notin fields_to_redact /\ value.t = "str" -> Str(redact_pii(value.s))
      [] key \notin fields_to_redact /\ value.t = "map" ->
            redact_json(value, fields_to_redact)
      [] key \notin fields_to_redact /\ value.t = "list" ->
            List(redact_items(value.xs, 1, fields_to_redact))
      [] OTHER -> value

redact_entries(es, i, fields_to_redact) ==
    IF i > Len(es) THEN <<>>
    ELSE <<Entry(es[i].k, redact_value(es[i].k, es[i].v, fields_to_redact))>>
             \o redact_entries(es, i + 1, fields_to_redact)

redact_json(d, fields_to_redact) ==
    Map(redact_entries(d.es, 1, fields_to_redact))

RECURSIVE HasUnredacted(_, _)
\* some map inside v, at any depth, keeps a value other than the placeholder
\* under a key of fields
HasUnredacted(v, fields) ==
    CASE v.t = "map" ->
            \E i \in 1..Len(v.es) :
                \/ v.es[i].k \in fields /\ v.es[i].v # Str(REDACTED)
                \/ HasUnredacted(v.es[i].v, fields)
      [] v.t = "list" -> \E i \in 1..Len(v.xs) : HasUnredacted(v.xs[i], fields)
      [] OTHER -> FALSE

\* ------------------------------------------------------------------------
\* Values handed to redact_json
\* ------------------------------------------------------------------------
\* nesting depth of the values handed to redact_json
MaxDepth == 4

JsonKeys == {"email", "note"}

JsonScalars ==
    { Str(<<"o", "k">>), Str(<<"a", "@", "a", ".", "c", "o">>), Num(7) }

RECURSIVE JsonOfDepth(_)
\* values nested at most d deep, every container holding at most one value
JsonOfDepth(d) ==
    IF d = 0 THEN JsonScalars
    ELSE LET below == JsonOfDepth(d - 1) IN
         JsonScalars
         \cup {Map(<<>>), List(<<>>)}
         \cup {Map(<<Entry(k, v)>>) : k \in JsonKeys, v \in below}
         \cup {List(<<v>>) : v \in below}

\* flat containers holding two values
JsonPairs ==
    LET flat == JsonOfDepth(1) IN
    {List(<<v, w>>) : v \in flat, w \in flat}

\* the arguments of redact_json: a map at the top
JsonInputs ==
    {Map(<<Entry(k, v)>>) : k \in JsonKeys, v \in JsonOfDepth(MaxDepth - 1)}
    \cup {Map(<<Entry("note", v), Entry("email", w)>>) : v \in JsonPairs, w \in JsonScalars}

\* ------------------------------------------------------------------------
\* Webhook signatures: json.dumps(payload, sort_keys=True) and HMAC-SHA256
\* ------------------------------------------------------------------------
\* the map keys of the model in the order of Python's str comparison
KeyOrder ==
    << "address", "category", "channel", "chat_session_id", "credit_card",
       "email", "entrypoint", "event_type", "guest_id", "intent_initial",
       "items", "meta", "name", "note", "payload", "phone", "priority",
       "request_id", "signature", "source", "ssn", "subcategory", "timestamp",
       "ts" >>

KeyRank(k) == CHOOSE i \in 1..Len(KeyOrder) : KeyOrder[i] = k

RECURSIVE InsertEntry(_, _)
\* e put into the key-sorted sequence of entries es
InsertEntry(e, es) ==
    IF es = <<>> THEN <<e>>
    ELSE IF KeyRank(e.k) < KeyRank(es[1].k) THEN <<e>> \o es
    ELSE <<es[1]>> \o InsertEntry(e, Tail(es))

RECURSIVE SortEntries(_)
\* sorted(d.items()) as sort_keys=True does it
SortEntries(es) ==
    IF es = <<>> THEN <<>> ELSE InsertEntry(es[1], SortEntries(Tail(es)))

RECURSIVE json_dumps(_, _)
RECURSIVE dumps_entries(_, _, _)
RECURSIVE dumps_items(_, _, _)

dumps_entries(es, i, sort_keys) ==
    IF i > Len(es) THEN <<>>
    ELSE (IF i > 1 THEN <<", ">> ELSE <<>>)
         \o <<"\"", es[i].k, "\"", ": ">> \o json_dumps(es[i].v, sort_keys)
         \o dumps_entries(es, i + 1, sort_keys)

dumps_items(xs, i, sort_keys) ==
    IF i > Len(xs) THEN <<>>
    ELSE (IF i > 1 THEN <<", ">> ELSE <<>>)
         \o json_dumps(xs[i], sort_keys)
         \o dumps_items(xs, i + 1, sort_keys)

\* json.dumps(v, sort_keys=sort_keys), as a sequence of output fragments
json_dumps(v, sort_keys) ==
    CASE v.t = "str" -> <<"\"">> \o v.s \o <<"\"">>
      [] v.t = "num" -> <<ToString(v.n)>>
      [] v.t = "map" ->
            <<"{">> \o dumps_entries(IF sort_keys THEN SortEntries(v.es) ELSE v.es,
                                     1, sort_keys) \o <<"}">>
      [] v.t = "list" -> <<"[">> \o dumps_items(v.xs, 1, sort_keys) \o <<"]">>

\* hmac.new(key, msg, hashlib.sha256).hexdigest(): a value that is different
\* for different (key, msg)
hmac_sha256(key, msg) == <<"hmac-sha256", key>> \o msg

HMAC_SECRET == "change-me-in-production"

\* json.dumps without sort_keys
unsorted_signature(p) == hmac_sha256(HMAC_SECRET, json_dumps(p, FALSE))

\* test_integration.py generate_webhook_signature, seed_data.py
\* generate_hmac_signature
generate_webhook_signature(p) == hmac_sha256(HMAC_SECRET, json_dumps(p, TRUE))

\* ------------------------------------------------------------------------
\* Payloads handed to generate_webhook_signature
\* ------------------------------------------------------------------------
\* most entries of the top-level map of a signed payload
MaxKeys == 3

InnerValues(k) ==
    CASE k = "request_id" -> {Str(<<"r1">>)}
      [] k = "priority"   -> {Str(<<"high">>)}

\* the maps over request_id and priority, in every order of their keys
InnerMaps ==
    {Map(<<>>)}
    \cup {Map(<<Entry(k, v)>>) : k \in {"request_id"}, v \in InnerValues("request_id")}
    \cup {Map(<<Entry(k, v)>>) : k \in {"priority"}, v \in InnerValues("priority")}
    \cup {Map(<<Entry("request_id", v), Entry("priority", w)>>) :
            v \in InnerValues("request_id"), w \in InnerValues("priority")}
    \cup {Map(<<Entry("priority", w), Entry("request_id", v)>>) :
            v \in InnerValues("request_id"), w \in InnerValues("priority")}

SigKeys == {"request_id", "priority", "meta", "items"}

SigValues(k) ==
    CASE k \in {"request_id", "priority"} -> InnerValues(k)
      [] k = "meta"  -> InnerMaps
      [] k = "items" -> {List(<<m>>) : m \in InnerMaps}

EntryKeys(es) == {es[i].k : i \in 1..Len(es)}

RECURSIVE SigEntries(_)
\* the sequences of n entries with distinct keys
SigEntries(n) ==
    IF n = 0 THEN {<<>>}
    ELSE UNION { UNION { {Append(es, Entry(k, v)) : v \in SigValues(k)} :
                         k \in SigKeys \ EntryKeys(es) } :
                 es \in SigEntries(n - 1) }

SigPayloads == {Map(es) : es \in UNION {SigEntries(n) : n \in 0..MaxKeys}}

RECURSIVE SameContent(_, _)
\* a and b are the same value up to the order of the keys of their maps
SameContent(a, b) ==
    /\ a.t = b.t
    /\ CASE a.t = "map" ->
              /\ Len(a.es) = Len(b.es)
              /\ KeysOf(a) = KeysOf(b)
              /\ \A k \in KeysOf(a) : SameContent(Get(a, k), Get(b, k))
         [] a.t = "list" ->
              /\ Len(a.xs) = Len(b.xs)
              /\ \A i \in 1..Len(a.xs) : SameContent(a.xs[i], b.xs[i])
         [] a.t = "str" -> a.s = b.s
         [] a.t = "num" -> a.n = b.n

\* ------------------------------------------------------------------------
\* privacy.py: IP anonymisation and the consent gate
\* ------------------------------------------------------------------------
\* an address text: what it parses to (kind, words) and how it is written
IPText(kind, words, spelling) == [kind |-> kind, words |-> words, spelling |-> spelling]
IPv4(a, b, c, d) == IPText("v4", <<a, b, c, d>>, "dotted")
\* ip_raw = None, the Optional[str] default of EventEnvelope
NoIP == IPText("none", <<>>, "")
\* a text ipaddress.ip_address() rejects
BadIP == IPText("bad", <<>>, "not-an-ip")
\* a text str.encode() rejects as well: a lone surrogate, which a JSON string
\* can carry
SurrogateIP == IPText("bad", <<>>, "lone surrogate")

\* bitwise and of two naturals
RECURSIVE BitAnd(_, _)
BitAnd(a, b) ==
    IF a = 0 \/ b = 0 THEN 0
    ELSE (a % 2) * (b % 2) + 2 * BitAnd(a \div 2, b \div 2)

RECURSIVE Pow2(_)
Pow2(n) == IF n = 0 THEN 1 ELSE 2 * Pow2(n - 1)

\* word i of the netmask of a prefix of prefixlen bits, in words of width bits
NetmaskWord(prefixlen, width, i) ==
    LET ones == IF prefixlen >= i * width THEN width
                ELSE IF prefixlen <= (i - 1) * width THEN 0
                ELSE prefixlen - (i - 1) * width
    IN  Pow2(width) - Pow2(width - ones)

\* ip_network(f"{ip}/{prefixlen}", strict=False).network_address: the
\* address and the netmask, word by word
network_address(words, prefixlen, width) ==
    [i \in 1..Len(words) |-> BitAnd(words[i], NetmaskWord(prefixlen, width, i))]

\* the network address of a shorter prefix
truncate_ip_16(ip_str) ==
    CASE ip_str.kind = "v4" -> IPText("v4", network_address(ip_str.words, 16, 8), "dotted")
      [] ip_str.kind = "v6" ->
            IPText("v6", network_address(ip_str.words, 32, 16), "compressed")
      [] OTHER -> IPv4(0, 0, 0, 0)

\* str(network.network_address) of ip/24 (IPv4) or ip/48 (IPv6), which is
\* written in the canonical spelling; "0.0.0.0" when ipaddress.ip_address()
\* raises
truncate_ip(ip_str) ==
    CASE ip_str.kind = "v4" -> IPText("v4", network_address(ip_str.words, 24, 8), "dotted")
      [] ip_str.kind = "v6" ->
            IPText("v6", network_address(ip_str.words, 48, 16), "compressed")
      [] OTHER -> IPv4(0, 0, 0, 0)

\* hmac.new(salt, ip_str, sha256).hexdigest(): keyed by the salt, over the
\* text as it was given; "" when ip_str.encode() raises
NoHash == [key |-> "", msg |-> NoIP]
hash_ip(ip_str, salt) ==
    IF ip_str = SurrogateIP THEN NoHash ELSE [key |-> salt, msg |-> ip_str]

DigitChar(n) == <<"0", "1", "2", "3", "4", "5", "6", "7", "8", "9">>[n + 1]

\* str(n) of a natural number
RECURSIVE Decimal(_)
Decimal(n) == IF n < 10 THEN <<DigitChar(n)>> ELSE Decimal(n \div 10) \o <<DigitChar(n % 10)>>

\* str() of an IPv4Address: the four octets in decimal, dot-separated
str_IPv4Address(ip) ==
    Decimal(ip.words[1]) \o <<".">> \o Decimal(ip.words[2]) \o <<".">>
        \o Decimal(ip.words[3]) \o <<".">> \o Decimal(ip.words[4])

process_ip_data(ip_str, salt) ==
    [present |-> TRUE, ip_trunc |-> truncate_ip(ip_str), ip_hash |-> hash_ip(ip_str, salt),
     geo |-> "none"]

\* IPv4 addresses as ipaddress.ip_address() parses them; it accepts one
\* spelling of each, dotted decimal without leading zeros
IPv4Inputs ==
    { IPv4(a, b, c, d) : a \in {10, 203}, b \in {0, 255}, c \in {0, 113, 255},
                         d \in {0, 1, 77, 255} }

\* IPv6 addresses 2001:db8:x:y::z, each written compressed in lower case
\* (2001:db8::1) or in full (2001:0db8:0000:...), which parse to one address
IPv6Inputs ==
    { IPText("v6", <<8193, 3512, x, y, 0, 0, 0, z>>, sp) :
        x \in {0, 43981, 65535}, y \in {0, 43981, 65535}, z \in {0, 1, 65535},
        sp \in {"compressed", "exploded"} }

IPInputs == IPv4Inputs \cup IPv6Inputs \cup {BadIP, SurrogateIP}

\* two texts that ipaddress.ip_address() parses to one address
SameAddress(x, y) ==
    /\ x.kind \in {"v4", "v6"}
    /\ x.kind = y.kind
    /\ x.words = y.words

\* ip_data = None
NoIpData == [present |-> FALSE, ip_trunc |-> NoIP, ip_hash |-> NoHash, geo |-> "none"]

\* consent_flags.get("analytics", False): .get exists on a dict and not on
\* the pydantic model ConsentFlags, where the attribute lookup raises
validate_consent(consent_flags) ==
    IF consent_flags.type # "dict" THEN "AttributeError"
    ELSE IF consent_flags.analytics = "absent" THEN "False"
    ELSE consent_flags.analytics

\* no consent declaration in hand
NoFlags == [type |-> "none", analytics |-> "absent"]

\* retention_map: days kept, by event type
retention_map ==
    ("page_view" :> 365) @@ ("search" :> 365) @@ ("faq_view" :> 365)
    @@ ("chat_start" :> 730) @@ ("chat_end" :> 730)
    @@ ("service_request_created" :> 730) @@ ("service_request_status_change" :> 730)
    @@ ("preference_signal" :> 365) @@ ("selection" :> 365)
    @@ ("consent_change" :> 2555)

\* an event type the table does not know is kept as long as a service interaction
get_retention_period_730(event_type) ==
    IF event_type \in DOMAIN retention_map THEN retention_map[event_type] ELSE 730

\* retention_map.get(event_type, 365)
get_retention_period(event_type) ==
    IF event_type \in DOMAIN retention_map THEN retention_map[event_type] ELSE 365

\* event types: those of the table, and some it does not know
EventTypes == DOMAIN retention_map \cup {"chat_message", "webhook_booking", "Consent_Change"}

\* consent declarations: the model ConsentFlags as pydantic validates it
\* (analytics: bool, marketing: Optional[bool] = None, functional: bool), and
\* plain mappings with any of the keys absent, null or a bool
ConsentInputs ==
    { [type |-> "ConsentFlags", analytics |-> a, marketing |-> m, functional |-> f] :
        a \in {"True", "False"}, m \in {"True", "False", "None"}, f \in {"True", "False"} }
    \cup
    { [type |-> "dict", analytics |-> a, marketing |-> m, functional |-> f] :
        a \in {"True", "False", "None", "absent"},
        m \in {"True", "False", "None", "absent"},
        f \in {"True", "False", "None", "absent"} }

\* Python truth value of what validate_consent returns
Truthy(v) == v = "True"

\* ------------------------------------------------------------------------
\* python_schemas.py: request bodies as FastAPI validates them
\* ------------------------------------------------------------------------
\* EventEnvelope: app_id is Literal["CBC-Agent"], consent_flags.analytics is a
\* required bool; a body that fails is answered 422 before the handler runs
EventEnvelopeValid(body) ==
    /\ body.app_id = "CBC-Agent"
    /\ body.analytics \in {"True", "False"}

\* envelope.dict()
EnvelopeDict(body) ==
    [app_id |-> body.app_id,
     event_type |-> body.event_type,
     session_id |-> body.session_id,
     guest_pseudonymous_id |-> body.guest_pseudonymous_id,
     consent_flags |-> [type |-> "dict", analytics |-> body.analytics],
     ip_raw |-> body.ip_raw]

ServiceCategory ==
    { <<"housekeeping">>, <<"maintenance">>, <<"dining">>, <<"spa">>, <<"tennis">>,
      <<"transport">>, <<"it">>, <<"other">> }

\* ServiceRequestCreatedEvent(**p) constructs
ServiceRequestCreatedValid(p) ==
    /\ p.t = "map"
    /\ {"ts", "request_id", "guest_id", "category", "source"} \subseteq KeysOf(p)
    /\ Get(p, "category").t = "str"
    /\ Get(p, "category").s \in ServiceCategory

\* ChatStartEvent(**p) constructs
ChatStartValid(p) ==
    /\ p.t = "map"
    /\ {"ts", "chat_session_id", "guest_id", "entrypoint"} \subseteq KeysOf(p)

GetOr(m, key, default) == IF key \in KeysOf(m) THEN Get(m, key) ELSE default

\* None, the default of an Optional field
Null == [t |-> "null"]

\* event.dict() of the validated webhook event: the declared fields only,
\* an Optional one the payload leaves out as None
EventDict(webhook_type, p) ==
    IF webhook_type = "service_request"
    THEN Map(<< Entry("event_type", Str(<<"service_request_created">>)),
                Entry("ts", Get(p, "ts")),
                Entry("request_id", Get(p, "request_id")),
                Entry("guest_id", Get(p, "guest_id")),
                Entry("category", Get(p, "category")),
                Entry("subcategory", GetOr(p, "subcategory", Null)),
                Entry("source", Get(p, "source")) >>)
    ELSE Map(<< Entry("event_type", Str(<<"chat_start">>)),
                Entry("ts", Get(p, "ts")),
                Entry("chat_session_id", Get(p, "chat_session_id")),
                Entry("guest_id", Get(p, "guest_id")),
                Entry("entrypoint", Get(p, "entrypoint")) >>)

\* payload.dict() of WebhookPayload: timestamp, signature, payload
WebhookDict(body) ==
    Map(<< Entry("timestamp", Str(body.timestamp)),
           Entry("signature", Str(body.signature)),
           Entry("payload", body.payload) >>)

\* ------------------------------------------------------------------------
\* webhooks.py: verify_webhook_signature
\* ------------------------------------------------------------------------
\* recompute the HMAC over the key-sorted serialisation and compare
verify_webhook_signature(p, provided, secret) ==
    provided = hmac_sha256(secret, json_dumps(p, TRUE))

\* ------------------------------------------------------------------------
\* database.py: rows of the events table
\* ------------------------------------------------------------------------
\* Database.store_event: the Event row built from event_data
EventRow(event_id, event_data) ==
    [id |-> event_id,
     event_type |-> event_data.envelope.event_type,
     session_id |-> event_data.envelope.session_id,
     guest_id |-> event_data.envelope.guest_pseudonymous_id,
     data |-> event_data.envelope,
     ip_data |-> event_data.ip_data]

\* the id is computed from the envelope, not generated for the attempt
store_event_keyed(event_id, event_data, db_outcome) ==
    LET key == Len(event_data.envelope.session_id) IN
    IF db_outcome = "ok"
    THEN [raised |-> FALSE,
          rows |-> <<[EventRow(event_id, event_data) EXCEPT !.id = key]>>, id |-> key]
    ELSE [raised |-> TRUE, rows |-> <<>>, id |-> 0]

\* the failure of the commit is logged and swallowed
store_event_swallowed(event_id, event_data, db_outcome) ==
    IF db_outcome = "ok"
    THEN [raised |-> FALSE, rows |-> <<EventRow(event_id, event_data)>>, id |-> event_id]
    ELSE [raised |-> FALSE, rows |-> <<>>, id |-> 0]

\* Database.store_event: session.add(event) and commit; the id is written
\* into event_data and returned. When the commit fails the session is rolled
\* back, so that no row is kept, and the exception is raised again
store_event(event_id, event_data, db_outcome) ==
    IF db_outcome = "ok"
    THEN [raised |-> FALSE, rows |-> <<EventRow(event_id, event_data)>>, id |-> event_id]
    ELSE [raised |-> TRUE, rows |-> <<>>, id |-> 0]

\* Database.store_webhook: the Event row built from the webhook event
WebhookRow(event_id, webhook_type, d) ==
    [id |-> event_id,
     event_type |-> "webhook_" \o webhook_type,
     session_id |-> GetOr(d, "session_id", Str(<<>>)).s,
     guest_id |-> GetOr(d, "guest_id", Str(<<>>)).s,
     data |-> d,
     ip_data |-> NoIpData]

\* ------------------------------------------------------------------------
\* main.py: responses
\* ------------------------------------------------------------------------
Response(code, detail, status, dnt, consent, event_id) ==
    [code |-> code, detail |-> detail, status |-> status, dnt |-> dnt,
     consent |-> consent, event_id |-> event_id]

NoResponse == Response(0, "", "", "absent", "absent", 0)
\* raise HTTPException(status_code=code, detail=detail)
HTTPException(code, detail) == Response(code, detail, "", "absent", "absent", 0)
\* FastAPI's answer to a body that fails validation
RequestValidationError == HTTPException(422, "validation error")
\* return {"status": "ok", "dnt": True}
DntResponse == Response(200, "", "ok", "True", "absent", 0)
\* return {"status": "ok", "consent": False}
NoConsentResponse == Response(200, "", "ok", "absent", "False", 0)
\* return {"status": "ok", "event_id": event_data.get("id")}
StoredResponse(event_id) == Response(200, "", "ok", "absent", "absent", event_id)
\* return {"status": "ok"}
OkResponse == Response(200, "", "ok", "absent", "absent", 0)

\* what running a handler body gives: the value returned or the exception
\* raised, the collaborators called in order, the rows committed
Returned(resp, calls, rows) == [exc |-> "none", resp |-> resp, calls |-> calls, rows |-> rows]
Raised(exc, resp, calls) == [exc |-> exc, resp |-> resp, calls |-> calls, rows |-> <<>>]

\* except Exception as e: ... raise HTTPException(500): every exception of
\* the body, HTTPException included, is answered 500
except_Exception(out) ==
    IF out.exc = "none" THEN out
    ELSE [out EXCEPT !.resp = HTTPException(500, "Internal server error")]

\* ------------------------------------------------------------------------
\* main.py: ingest_event
\* ------------------------------------------------------------------------
SOURCE_APP_DEFAULT == "CBC-Agent"
IP_SALT == "rotate-quarterly"

\* the header compared with "true"
dnt_compared_with_true(headers) == headers.DNT = "true"

\* request.headers.get("DNT") == "1"
dnt_requested(headers) == headers.DNT = "1"

\* lines 125-142: assemble event_data, track the metric, store, answer
store_stage(body, ip_data, flags_type, calls, db_outcome, event_id) ==
    LET event_data == [envelope |-> EnvelopeDict(body), ip_data |-> ip_data]
        calls2 == calls \o <<"track_event", "store_event">>
        stored == store_event(event_id, event_data, db_outcome)
    IN  IF stored.raised
        THEN Raised("SQLAlchemyError", NoResponse, calls2)
        ELSE Returned(StoredResponse(stored.id), calls2, stored.rows)

\* lines 119-123: the consent gate, then the store stage
consent_stage(body, ip_data, flags_type, calls, db_outcome, event_id) ==
    LET consent == validate_consent([type |-> flags_type, analytics |-> body.analytics])
        calls2 == calls \o <<"validate_consent">>
    IN  IF consent = "AttributeError" THEN Raised("AttributeError", NoResponse, calls2)
        ELSE IF ~Truthy(consent) THEN Returned(NoConsentResponse, calls2, <<>>)
        ELSE store_stage(body, ip_data, flags_type, calls2, db_outcome, event_id)

\* the address is processed whatever the storage mode is
ip_stage_any_mode(body, req, store_raw_ip, flags_type, event_id) ==
    IF body.ip_raw = NoIP /\ req.client = NoIP
    THEN Raised("AttributeError", NoResponse, <<>>)
    ELSE LET client_ip == IF body.ip_raw # NoIP THEN body.ip_raw ELSE req.client IN
         IF req.geo = "error"
         THEN Raised("GeoError", NoResponse, <<"process_ip_data", "get_geo_data">>)
         ELSE consent_stage(body,
                            [process_ip_data(client_ip, IP_SALT) EXCEPT !.geo = req.geo],
                            flags_type, <<"process_ip_data", "get_geo_data">>,
                            req.db, event_id)

\* lines 110-117: client_ip, process_ip_data and get_geo_data
ip_stage(body, req, store_raw_ip, flags_type, event_id) ==
    IF body.ip_raw = NoIP /\ req.client = NoIP
    THEN Raised("AttributeError", NoResponse, <<>>)      \* request.client is None
    ELSE LET client_ip == IF body.ip_raw # NoIP THEN body.ip_raw ELSE req.client IN
         IF store_raw_ip
         THEN consent_stage(body, NoIpData, flags_type, <<>>, req.db, event_id)
         ELSE IF req.geo = "error"
         THEN Raised("GeoError", NoResponse, <<"process_ip_data", "get_geo_data">>)
         ELSE consent_stage(body,
                            [process_ip_data(client_ip, IP_SALT) EXCEPT !.geo = req.geo],
                            flags_type, <<"process_ip_data", "get_geo_data">>,
                            req.db, event_id)

\* the body of the try block of ingest_event
ingest_body(req, source_app, store_raw_ip, flags_type, event_id) ==
    IF req.body.app_id # source_app
    THEN Raised("HTTPException", HTTPException(400, "Invalid app_id"), <<>>)
    ELSE IF dnt_requested(req.headers) THEN Returned(DntResponse, <<>>, <<>>)
    ELSE ip_stage(req.body, req, store_raw_ip, flags_type, event_id)

\* POST /ingest/event
ingest_event(req, source_app, store_raw_ip, flags_type, event_id) ==
    IF ~EventEnvelopeValid(req.body)
    THEN Raised("RequestValidationError", RequestValidationError, <<>>)
    ELSE except_Exception(ingest_body(req, source_app, store_raw_ip, flags_type, event_id))

\* ------------------------------------------------------------------------
\* main.py: receive_webhook
\* ------------------------------------------------------------------------
\* payload.signature or x_signature
ProvidedSignatureFieldFirst(req) ==
    IF req.body.signature # <<>> THEN req.body.signature ELSE req.x_signature

\* x_signature or payload.signature
ProvidedSignature(req) ==
    IF req.x_signature # <<>> THEN req.x_signature ELSE req.body.signature

\* lines 167-183: build the event for the webhook type and store it
webhook_dispatch(req, calls, event_id) ==
    LET wt == req.webhook_type
        p  == req.body.payload
        calls2 == calls \o <<"store_webhook">>
    IN  CASE wt = "service_request" /\ ~ServiceRequestCreatedValid(p) ->
                Raised("ValidationError", NoResponse, calls)
          [] wt = "chat_session" /\ ~ChatStartValid(p) ->
                Raised("ValidationError", NoResponse, calls)
          [] wt = "booking" ->
                Raised("UnboundLocalError", NoResponse, calls)   \* event was never bound
          [] wt \notin {"service_request", "chat_session", "booking"} ->
                Raised("HTTPException", HTTPException(400, "Unknown webhook type"), calls)
          [] OTHER ->
                IF req.db = "ok"
                THEN Returned(OkResponse, calls2,
                              <<WebhookRow(event_id, wt, EventDict(wt, p))>>)
                ELSE Raised("SQLAlchemyError", NoResponse, calls2)

\* the body of the try block of receive_webhook
webhook_body(req, event_id) ==
    IF ~verify_webhook_signature(WebhookDict(req.body), ProvidedSignature(req), HMAC_SECRET)
    THEN Raised("HTTPException", HTTPException(401, "Invalid signature"),
                <<"verify_webhook_signature">>)
    ELSE webhook_dispatch(req, <<"verify_webhook_signature">>, event_id)

\* POST /webhook/cbc-agent/{webhook_type}
receive_webhook(req, event_id) == except_Exception(webhook_body(req, event_id))

\* ------------------------------------------------------------------------
\* Requests
\* ------------------------------------------------------------------------
\* most rows of the events table
MaxEvents == 2

EmailText == <<"a", "@", "a", ".", "c", "o">>

IngestBody(app_id, analytics, ip_raw, guest) ==
    [app_id |-> app_id, event_type |-> "page_view", session_id |-> <<"s", "1">>,
     guest_pseudonymous_id |-> guest, analytics |-> analytics, ip_raw |-> ip_raw]

IngestRequest(body, dnt, client, geo, db) ==
    [kind |-> "ingest", body |-> body, headers |-> [DNT |-> dnt], client |-> client,
     geo |-> geo, db |-> db]

\* requests that differ in what the first stages look at
GateRequests ==
    { IngestRequest(IngestBody(a, c, ip, <<"g", "1">>), dnt, client, "BM", "ok") :
        a \in {"CBC-Agent", "CBC-Staging", "InvalidApp"},
        c \in {"True", "False", "absent"},
        ip \in {NoIP, IPv4(203, 0, 113, 77)}, dnt \in {"1", "true", "absent"},
        client \in {IPv4(198, 51, 100, 7), NoIP} }

\* what awaiting get_geo_data(client_ip) gives: a country, nothing, or an
\* exception (a lookup that fails or times out)
GeoOutcomes == {"BM", "none", "error"}

\* requests that pass the first stages and differ in what the later ones use
StoreRequests ==
    { IngestRequest(IngestBody("CBC-Agent", "True", ip, g), "absent", client, geo, db) :
        ip \in {NoIP, IPv4(203, 0, 113, 77), BadIP}, g \in {<<"g", "1">>, EmailText},
        client \in {IPv4(198, 51, 100, 7), BadIP}, geo \in GeoOutcomes,
        db \in {"ok", "fail"} }

IngestRequests == GateRequests \cup StoreRequests

\* the webhook payload of the specification's example
ExamplePayload ==
    Map(<< Entry("request_id", Str(<<"r1">>)), Entry("priority", Str(<<"high">>)) >>)

\* a payload ServiceRequestCreatedEvent accepts
ServicePayload ==
    Map(<< Entry("ts", Str(<<"t1">>)), Entry("request_id", Str(<<"r1">>)),
           Entry("guest_id", Str(<<"g", "1">>)), Entry("category", Str(<<"spa">>)),
           Entry("source", Str(<<"chatbot">>)) >>)

\* a payload ChatStartEvent accepts
ChatPayload ==
    Map(<< Entry("entrypoint", Str(<<"web">>)), Entry("ts", Str(<<"t1">>)),
           Entry("chat_session_id", Str(<<"c1">>)), Entry("guest_id", Str(<<"g", "1">>)) >>)

WebhookPayloads == {ExamplePayload, ServicePayload, ChatPayload}

WebhookBody(signature, p) == [timestamp |-> <<"t0">>, signature |-> signature, payload |-> p]

\* the signatures a sender may supply for payload p: a forged one, the one
\* the test and seed scripts compute over p
FieldSignatures(p) == {<<"deadbeef">>, generate_webhook_signature(p)}

\* the X-Signature header: absent, or a field signature, or the HMAC over
\* the whole body as the receiver serialises it
HeaderSignatures(body) ==
    {<<>>} \cup FieldSignatures(body.payload)
           \cup {hmac_sha256(HMAC_SECRET, json_dumps(WebhookDict(body), TRUE))}

WebhookRequests ==
    UNION { UNION { { [kind |-> "webhook", webhook_type |-> wt,
                       body |-> WebhookBody(s, p), x_signature |-> x, db |-> db] :
                      x \in HeaderSignatures(WebhookBody(s, p)),
                      wt \in {"service_request", "chat_session", "booking", "refund"},
                      db \in {"ok", "fail"} } :
                    s \in FieldSignatures(p) } :
            p \in WebhookPayloads }

NoRequest == [kind |-> "none"]

\* ------------------------------------------------------------------------
\* database.py: guests, guest profiles and the tables keyed by guest_id
\* ------------------------------------------------------------------------
GuestIds == {<<"g", "1">>, <<"g", "2">>}

\* a row of guests (primary key pseudonymous_id), or no row
GuestRow(consent_given) == [present |-> TRUE, consent_given |-> consent_given]
NoGuest == [present |-> FALSE, consent_given |-> "None"]

\* a row of guest_profiles (primary key guest_id), or no row
ProfileRow(name) == [present |-> TRUE, name |-> name]
NoProfile == [present |-> FALSE, name |-> ""]

\* the tables: guests and guest_profiles by primary key, events in the
\* order of commit, sessions, chat_sessions and service_requests as sets of
\* rows [id, guest_id]
Tables(g, p, e, s, c, r) ==
    [guests |-> g, guest_profiles |-> p, events |-> e, sessions |-> s,
     chat_sessions |-> c, service_requests |-> r]

\* Database.get_guest_consent: the row's consent, None when there is no row
get_guest_consent(db, guest_id) == db.guests[guest_id]

\* Database.update_consent: INSERT ... ON CONFLICT DO UPDATE, commit; on an
\* error rollback and raise
Database_update_consent(db, guest_id, consent_given, db_outcome) ==
    IF db_outcome = "ok"
    THEN [raised |-> FALSE,
          db |-> [db EXCEPT !.guests = [@ EXCEPT ![guest_id] = GuestRow(consent_given)]]]
    ELSE [raised |-> TRUE, db |-> db]

\* Database.upsert_guest_profile, first statement: SELECT guest_id FROM
\* guest_profiles; result.first() is a row or None
upsert_select(db, guest_id) == db.guest_profiles[guest_id].present

\* Database.upsert_guest_profile, the statements after the check: UPDATE
\* when the check found a row, INSERT otherwise, then commit. An INSERT of a
\* guest_id that is in the table by now violates the primary key; on any
\* error rollback and raise
upsert_write(db, profile, found, db_outcome) ==
    LET g == profile.guest_id
        written == [db EXCEPT !.guest_profiles = [@ EXCEPT ![g] = ProfileRow(profile.name)]]
    IN  IF db_outcome # "ok" THEN [raised |-> TRUE, db |-> db]
        ELSE IF found
        THEN [raised |-> FALSE, db |-> IF db.guest_profiles[g].present THEN written ELSE db]
        ELSE IF db.guest_profiles[g].present
        THEN [raised |-> TRUE, db |-> db]
        ELSE [raised |-> FALSE, db |-> written]

\* Database.upsert_guest_profile run without interruption
upsert_guest_profile(db, profile, db_outcome) ==
    upsert_write(db, profile, upsert_select(db, profile.guest_id), db_outcome)

\* f"privacy_{guest_id}_token"
PrivacyToken(guest_id) == <<"privacy_">> \o guest_id \o <<"_token">>

\* Database.verify_privacy_token
verify_privacy_token(guest_id, token) == token = PrivacyToken(guest_id)

\* the rows of a set-valued table that are not of the guest
WithoutGuest(rows, guest_id) == {row \in rows : row.guest_id # guest_id}

\* the tables after the first n DELETE statements of delete_guest_data
DeletedUpTo(db, guest_id, n) ==
    [guests |-> IF n >= 6 THEN [db.guests EXCEPT ![guest_id] = NoGuest] ELSE db.guests,
     guest_profiles |-> IF n >= 5 THEN [db.guest_profiles EXCEPT ![guest_id] = NoProfile]
                        ELSE db.guest_profiles,
     events |-> IF n >= 1 THEN SelectSeq(db.events, LAMBDA row : row.guest_id # guest_id)
                ELSE db.events,
     sessions |-> IF n >= 2 THEN WithoutGuest(db.sessions, guest_id) ELSE db.sessions,
     chat_sessions |-> IF n >= 3 THEN WithoutGuest(db.chat_sessions, guest_id)
                       ELSE db.chat_sessions,
     service_requests |-> IF n >= 4 THEN WithoutGuest(db.service_requests, guest_id)
                          ELSE db.service_requests]

\* every statement is committed as it is executed: a failure keeps what the
\* statements before it deleted
Database_delete_guest_data_autocommit(db, guest_id, fail_at) ==
    IF fail_at = 0 THEN [raised |-> FALSE, db |-> DeletedUpTo(db, guest_id, 6)]
    ELSE [raised |-> TRUE, db |-> DeletedUpTo(db, guest_id, fail_at - 1)]

\* Database.delete_guest_data: six DELETE statements and a commit in one
\* session; fail_at is 0 when all succeed, 1..6 when that statement fails,
\* 7 when the commit fails; on a failure rollback and raise
Database_delete_guest_data(db, guest_id, fail_at) ==
    IF fail_at = 0 THEN [raised |-> FALSE, db |-> DeletedUpTo(db, guest_id, 6)]
    ELSE [raised |-> TRUE, db |-> db]

\* ------------------------------------------------------------------------
\* main.py: update_guest_profile, update_consent, delete_guest_data
\* ------------------------------------------------------------------------
\* return {"status": "deleted"}
DeletedResponse == Response(200, "", "deleted", "absent", "absent", 0)

\* what running one of these handlers gives: the exception raised if any,
\* the answer, the database methods called in order, the tables afterwards
GuestOutcome(exc, resp, calls, db) == [exc |-> exc, resp |-> resp, calls |-> calls, db |-> db]

\* the body of the try block of update_guest_profile
profile_body(profile, db, db_outcome) ==
    LET consent == get_guest_consent(db, profile.guest_id) IN
    IF ~consent.present \/ consent.consent_given # "True"
    THEN GuestOutcome("HTTPException", HTTPException(403, "Consent not given"),
                      <<"get_guest_consent">>, db)
    ELSE LET r == upsert_guest_profile(db, profile, db_outcome)
             calls == <<"get_guest_consent", "upsert_guest_profile">>
         IN  IF r.raised THEN GuestOutcome("SQLAlchemyError", NoResponse, calls, r.db)
             ELSE GuestOutcome("none", OkResponse, calls, r.db)

\* POST /guest/profile: the COLLECT_PII check stands before the try block
update_guest_profile(profile, collect_pii, db, db_outcome) ==
    IF ~collect_pii
    THEN GuestOutcome("HTTPException", HTTPException(403, "PII collection disabled"),
                      <<>>, db)
    ELSE except_Exception(profile_body(profile, db, db_outcome))

\* POST /consent
update_consent(event, db, db_outcome) ==
    LET r == Database_update_consent(db, event.guest_id, event.consent_given, db_outcome) IN
    except_Exception(
        IF r.raised THEN GuestOutcome("SQLAlchemyError", NoResponse, <<"update_consent">>, r.db)
        ELSE GuestOutcome("none", OkResponse, <<"update_consent", "track_event">>, r.db))

\* POST /privacy/delete
delete_guest_data(guest_id, token, db, fail_at) ==
    except_Exception(
        IF ~verify_privacy_token(guest_id, token)
        THEN GuestOutcome("HTTPException", HTTPException(401, "Invalid token"),
                          <<"verify_privacy_token">>, db)
        ELSE LET r == Database_delete_guest_data(db, guest_id, fail_at)
                 calls == <<"verify_privacy_token", "delete_guest_data">>
             IN  IF r.raised THEN GuestOutcome("SQLAlchemyError", NoResponse, calls, r.db)
                 ELSE GuestOutcome("none", DeletedResponse, calls, r.db))

\* ------------------------------------------------------------------------
\* State
\* ------------------------------------------------------------------------
VARIABLES
    pc,         \* "serve", "answered" for the server; "start", "once", ... for
                \* the run of a pure function
    text,       \* argument of redact_pii
    once,       \* redact_pii(text)
    twice,      \* redact_pii(redact_pii(text))
    data,       \* argument of redact_json
    result,     \* redact_json(data)
    payload,    \* webhook payload the sender signs
    variant,    \* the same payload with its map keys in another order
    sigA,       \* generate_webhook_signature(payload)
    sigB,       \* generate_webhook_signature(variant)
    SOURCE_APP,     \* os.getenv("SOURCE_APP", "CBC-Agent")
    STORE_RAW_IP,   \* os.getenv("STORE_RAW_IP", "false").lower() == "true"
    flags_type,     \* type of the value ingest_event hands to validate_consent
    events,         \* the events table, rows in the order of their commit
    next_id,        \* the next value uuid.uuid4() gives
    request,        \* the request handled last
    response,       \* the answer to it
    calls,          \* the collaborators its handler called, in order
    ip_a,           \* argument ip_str of a first call of process_ip_data
    ip_b,           \* argument ip_str of a second call
    salt,           \* argument salt of both
    ip_data_a,      \* process_ip_data(ip_a, salt)
    ip_data_b,      \* process_ip_data(ip_b, salt)
    consent_flags,  \* argument of validate_consent
    consent,        \* validate_consent(consent_flags)
    earlier_type,   \* argument of an earlier call of get_retention_period
    event_type,     \* argument of the call that follows it
    earlier_days,   \* get_retention_period(earlier_type)
    days,           \* get_retention_period(event_type)
    COLLECT_PII,    \* os.getenv("COLLECT_PII", "false").lower() == "true"
    guests,         \* table guests: guest id -> row or no row
    guest_profiles, \* table guest_profiles: guest id -> row or no row
    sessions,       \* table sessions
    chat_sessions,  \* table chat_sessions
    service_requests,   \* table service_requests
    workers         \* update_guest_profile calls in progress, by worker

vars == <<pc, text, once, twice, data, result, payload, variant, sigA, sigB,
          SOURCE_APP, STORE_RAW_IP, flags_type, events, next_id, request,
          response, calls, ip_a, ip_b, salt, ip_data_a, ip_data_b,
          consent_flags, consent, earlier_type, event_type, earlier_days, days,
          COLLECT_PII, guests, guest_profiles, sessions, chat_sessions,
          service_requests, workers>>

ipVars == <<ip_a, ip_b, salt, ip_data_a, ip_data_b>>
consentVars == <<consent_flags, consent>>
retentionVars == <<earlier_type, event_type, earlier_days, days>>
privacyVars == <<ipVars, consentVars, retentionVars>>

\* the database as the handlers see it
Db == Tables(guests, guest_profiles, events, sessions, chat_sessions, service_requests)

redactVars == <<text, once, twice>>
jsonVars == <<data, result>>
sigVars == <<payload, variant, sigA, sigB>>
configVars == <<SOURCE_APP, STORE_RAW_IP, flags_type>>
guestTables == <<guests, guest_profiles, sessions, chat_sessions, service_requests>>
guestVars == <<COLLECT_PII, guestTables, workers>>
serverVars == <<SOURCE_APP, STORE_RAW_IP, flags_type, events, next_id, request,
                response, calls, guestVars>>

IdleRedact == text = <<>> /\ once = <<>> /\ twice = <<>>
IdleJson == data = Map(<<>>) /\ result = Map(<<>>)
IdleSig == payload = Map(<<>>) /\ variant = Map(<<>>) /\ sigA = <<>> /\ sigB = <<>>
IdleIp ==
    /\ ip_a = NoIP /\ ip_b = NoIP /\ salt = IP_SALT
    /\ ip_data_a = NoIpData /\ ip_data_b = NoIpData
IdleConsent == consent_flags = NoFlags /\ consent = "unset"
IdleRetention ==
    /\ earlier_type = "" /\ event_type = "" /\ earlier_days = 0 /\ days = 0
IdlePrivacy == IdleIp /\ IdleConsent /\ IdleRetention
IdleGuests ==
    /\ COLLECT_PII = FALSE
    /\ guests = [g \in GuestIds |-> NoGuest]
    /\ guest_profiles = [g \in GuestIds |-> NoProfile]
    /\ sessions = {} /\ chat_sessions = {} /\ service_requests = {}
    /\ workers = <<>>
IdleServer ==
    /\ IdleGuests
    /\ SOURCE_APP = SOURCE_APP_DEFAULT
    /\ STORE_RAW_IP = FALSE
    /\ flags_type = "ConsentFlags"
    /\ events = <<>>
    /\ next_id = 1
    /\ request = NoRequest
    /\ response = NoResponse
    /\ calls = <<>>

\* ------------------------------------------------------------------------
\* redact_pii applied once and twice to a text
\* ------------------------------------------------------------------------
RedactInit ==
    /\ pc = "start"
    /\ text \in Texts
    /\ once = <<>>
    /\ twice = <<>>
    /\ IdleJson /\ IdleSig /\ IdleServer /\ IdlePrivacy

RedactOnce ==
    /\ pc = "start"
    /\ once' = redact_pii(text)
    /\ pc' = "once"
    /\ UNCHANGED <<text, twice, jsonVars, sigVars, serverVars, privacyVars>>

RedactTwice ==
    /\ pc = "once"
    /\ twice' = redact_pii(once)
    /\ pc' = "twice"
    /\ UNCHANGED <<text, once, jsonVars, sigVars, serverVars, privacyVars>>

SpecRedact == RedactInit /\ [][RedactOnce \/ RedactTwice]_vars


\* ------------------------------------------------------------------------
\* redact_json applied to a value
\* ------------------------------------------------------------------------
JsonInit ==
    /\ pc = "start"
    /\ data \in JsonInputs
    /\ result = Map(<<>>)
    /\ IdleRedact /\ IdleSig /\ IdleServer /\ IdlePrivacy

RedactJson ==
    /\ pc = "start"
    /\ result' = redact_json(data, DefaultFields)
    /\ pc' = "done"
    /\ UNCHANGED <<data, redactVars, sigVars, serverVars, privacyVars>>

SpecJson == JsonInit /\ [][RedactJson]_vars

\* ------------------------------------------------------------------------
\* The sender signing a payload and the same payload with reordered keys
\* ------------------------------------------------------------------------
SigInit ==
    /\ pc = "start"
    /\ payload \in SigPayloads
    /\ variant \in {q \in SigPayloads : SameContent(payload, q)}
    /\ sigA = <<>>
    /\ sigB = <<>>
    /\ IdleRedact /\ IdleJson /\ IdleServer /\ IdlePrivacy

SignBoth ==
    /\ pc = "start"
    /\ sigA' = generate_webhook_signature(payload)
    /\ sigB' = generate_webhook_signature(variant)
    /\ pc' = "signed"
    /\ UNCHANGED <<payload, variant, redactVars, jsonVars, serverVars, privacyVars>>

SpecSig == SigInit /\ [][SignBoth]_vars

\* ------------------------------------------------------------------------
\* process_ip_data applied to an address text, then to a second one
\* ------------------------------------------------------------------------
IpInit ==
    /\ pc = "start"
    /\ ip_a \in IPInputs
    /\ ip_b \in {x \in IPInputs : SameAddress(ip_a, x)}
                \cup {IPv4(203, 0, 113, 77), BadIP, SurrogateIP}
    /\ salt \in {IP_SALT, "rotated"}
    /\ ip_data_a = NoIpData
    /\ ip_data_b = NoIpData
    /\ IdleRedact /\ IdleJson /\ IdleSig /\ IdleServer /\ IdleConsent /\ IdleRetention

ProcessIpFirst ==
    /\ pc = "start"
    /\ ip_data_a' = process_ip_data(ip_a, salt)
    /\ pc' = "first"
    /\ UNCHANGED <<ip_a, ip_b, salt, ip_data_b, redactVars, jsonVars, sigVars, serverVars,
                   consentVars, retentionVars>>

ProcessIpSecond ==
    /\ pc = "first"
    /\ ip_data_b' = process_ip_data(ip_b, salt)
    /\ pc' = "done"
    /\ UNCHANGED <<ip_a, ip_b, salt, ip_data_a, redactVars, jsonVars, sigVars, serverVars,
                   consentVars, retentionVars>>

SpecIp == IpInit /\ [][ProcessIpFirst \/ ProcessIpSecond]_vars

\* ------------------------------------------------------------------------
\* validate_consent applied to a consent declaration
\* ------------------------------------------------------------------------
ConsentInit ==
    /\ pc = "start"
    /\ consent_flags \in ConsentInputs
    /\ consent = "unset"
    /\ IdleRedact /\ IdleJson /\ IdleSig /\ IdleServer /\ IdleIp /\ IdleRetention

ValidateConsent ==
    /\ pc = "start"
    /\ consent' = validate_consent(consent_flags)
    /\ pc' = "done"
    /\ UNCHANGED <<consent_flags, redactVars, jsonVars, sigVars, serverVars, ipVars,
                   retentionVars>>

SpecConsent == ConsentInit /\ [][ValidateConsent]_vars

\* ------------------------------------------------------------------------
\* get_retention_period called for one event type after another
\* ------------------------------------------------------------------------
RetentionInit ==
    /\ pc = "start"
    /\ earlier_type \in EventTypes
    /\ event_type \in EventTypes
    /\ earlier_days = 0
    /\ days = 0
    /\ IdleRedact /\ IdleJson /\ IdleSig /\ IdleServer /\ IdleIp /\ IdleConsent

RetentionEarlier ==
    /\ pc = "start"
    /\ earlier_days' = get_retention_period(earlier_type)
    /\ pc' = "first"
    /\ UNCHANGED <<earlier_type, event_type, days, redactVars, jsonVars, sigVars,
                   serverVars, ipVars, consentVars>>

RetentionLater ==
    /\ pc = "first"
    /\ days' = get_retention_period(event_type)
    /\ pc' = "done"
    /\ UNCHANGED <<earlier_type, event_type, earlier_days, redactVars, jsonVars, sigVars,
                   serverVars, ipVars, consentVars>>

SpecRetention == RetentionInit /\ [][RetentionEarlier \/ RetentionLater]_vars

\* ------------------------------------------------------------------------
\* Two update_guest_profile calls in progress at once. Each await of the
\* handler (get_guest_consent, the SELECT of upsert_guest_profile, its write
\* and commit) is a step; the steps of the two calls interleave freely.
\* ------------------------------------------------------------------------
Workers == {1, 2}

\* a call in progress: where it is, its profile, whether a row of its guest
\* was in the table when the call began, what its SELECT found, its answer
Worker(pc_, profile, existed, db_outcome) ==
    [pc |-> pc_, profile |-> profile, existed |-> existed, found |-> FALSE,
     resp |-> NoResponse, db_outcome |-> db_outcome]

GuestsInputs == [GuestIds -> {NoGuest, GuestRow("True"), GuestRow("False")}]
ProfilesInputs == [GuestIds -> {NoProfile, ProfileRow("n0")}]

UpsertInit ==
    /\ pc = "workers"
    /\ COLLECT_PII \in BOOLEAN
    /\ guests \in GuestsInputs
    /\ guest_profiles \in ProfilesInputs
    /\ sessions = {} /\ chat_sessions = {} /\ service_requests = {}
    /\ workers \in { [w \in Workers |->
                        Worker("consent", [guest_id |-> g[w], name |-> <<"n1", "n2">>[w]],
                               guest_profiles[g[w]].present, o[w])] :
                      g \in [Workers -> GuestIds], o \in [Workers -> {"ok", "fail"}] }
    /\ SOURCE_APP = SOURCE_APP_DEFAULT /\ STORE_RAW_IP = FALSE /\ flags_type = "ConsentFlags"
    /\ events = <<>> /\ next_id = 1
    /\ request = NoRequest /\ response = NoResponse /\ calls = <<>>
    /\ IdleRedact /\ IdleJson /\ IdleSig /\ IdlePrivacy

WorkerFrame ==
    UNCHANGED <<pc, redactVars, jsonVars, sigVars, privacyVars, SOURCE_APP, STORE_RAW_IP,
                flags_type, events, next_id, request, response, calls, COLLECT_PII,
                guests, sessions, chat_sessions, service_requests>>

\* lines 196-203: the COLLECT_PII check and the consent check
GetConsent(w) ==
    /\ workers[w].pc = "consent"
    /\ LET me == workers[w]
           row == get_guest_consent(Db, me.profile.guest_id)
       IN  workers' =
             [workers EXCEPT ![w] =
                IF ~COLLECT_PII
                THEN [me EXCEPT !.pc = "done",
                                !.resp = HTTPException(403, "PII collection disabled")]
                ELSE IF ~row.present \/ row.consent_given # "True"
                THEN [me EXCEPT !.pc = "done",
                                !.resp = except_Exception(
                                    GuestOutcome("HTTPException",
                                                 HTTPException(403, "Consent not given"),
                                                 <<>>, Db)).resp]
                ELSE [me EXCEPT !.pc = "select"]]
    /\ UNCHANGED guest_profiles
    /\ WorkerFrame

\* upsert_guest_profile: the SELECT
SelectProfile(w) ==
    /\ workers[w].pc = "select"
    /\ workers' = [workers EXCEPT ![w].found = upsert_select(Db, workers[w].profile.guest_id),
                                  ![w].pc = "write"]
    /\ UNCHANGED guest_profiles
    /\ WorkerFrame

\* upsert_guest_profile: UPDATE or INSERT, commit; then the handler's answer
WriteProfile(w) ==
    /\ workers[w].pc = "write"
    /\ LET me == workers[w]
           r == upsert_write(Db, me.profile, me.found, me.db_outcome)
       IN  /\ guest_profiles' = r.db.guest_profiles
           /\ workers' =
                 [workers EXCEPT ![w].pc = "done",
                                 ![w].resp =
                                    IF r.raised
                                    THEN except_Exception(
                                            GuestOutcome("SQLAlchemyError", NoResponse,
                                                         <<>>, r.db)).resp
                                    ELSE OkResponse]
    /\ WorkerFrame

UpsertNext == \E w \in Workers : GetConsent(w) \/ SelectProfile(w) \/ WriteProfile(w)

SpecUpsert == UpsertInit /\ [][UpsertNext]_vars

\* ------------------------------------------------------------------------
\* The server handling one request after another
\* ------------------------------------------------------------------------
ServerInit(types) ==
    /\ pc = "serve"
    /\ IdleRedact /\ IdleJson /\ IdleSig /\ IdlePrivacy /\ IdleGuests
    /\ SOURCE_APP \in {SOURCE_APP_DEFAULT, "CBC-Staging"}
    /\ STORE_RAW_IP \in BOOLEAN
    /\ flags_type \in types
    /\ events = <<>>
    /\ next_id = 1
    /\ request = NoRequest
    /\ response = NoResponse
    /\ calls = <<>>

\* the handler's outcome becomes the state: rows committed, answer sent
Handle(req, out) ==
    /\ request' = req
    /\ response' = out.resp
    /\ calls' = out.calls
    /\ events' = events \o out.rows
    /\ next_id' = next_id + Len(out.rows)
    /\ pc' = "answered"
    /\ UNCHANGED <<redactVars, jsonVars, sigVars, configVars, privacyVars, guestVars>>

IngestEvent ==
    /\ pc = "serve"
    /\ Len(events) < MaxEvents
    /\ \E req \in IngestRequests :
          Handle(req, ingest_event(req, SOURCE_APP, STORE_RAW_IP, flags_type, next_id))

ReceiveWebhook ==
    /\ pc = "serve"
    /\ Len(events) < MaxEvents
    /\ \E req \in WebhookRequests : Handle(req, receive_webhook(req, next_id))

\* the answer is sent; nothing of the request is kept
Complete ==
    /\ pc = "answered"
    /\ pc' = "serve"
    /\ request' = NoRequest
    /\ response' = NoResponse
    /\ calls' = <<>>
    /\ UNCHANGED <<redactVars, jsonVars, sigVars, configVars, events, next_id,
                   privacyVars, guestVars>>

Next == IngestEvent \/ ReceiveWebhook \/ Complete

\* the service as shipped: the envelope FastAPI hands to ingest_event holds
\* its consent declaration as the pydantic model ConsentFlags
Init == ServerInit({"ConsentFlags"})

Spec == Init /\ [][Next]_vars

\* ingest_event handed the consent declaration as the mapping that the
\* signature of validate_consent declares (Dict[str, Any])
InitMapping == ServerInit({"dict"})

SpecMapping == InitMapping /\ [][Next]_vars

\* ------------------------------------------------------------------------
\* The server with the guest endpoints: consent updates, profile requests,
\* privacy deletions and events of guests, one request after another
\* ------------------------------------------------------------------------
\* rows other parts of the platform keep in the tables keyed by guest_id
SessionRows == { [session_id |-> <<"s">> \o g, guest_id |-> g] : g \in GuestIds }
ChatSessionRows == { [id |-> <<"c">> \o g, guest_id |-> g] : g \in GuestIds }
ServiceRequestRows == { [id |-> <<"r">> \o g, guest_id |-> g] : g \in GuestIds }

GuestInit ==
    /\ pc = "serve"
    /\ IdleRedact /\ IdleJson /\ IdleSig /\ IdlePrivacy
    /\ SOURCE_APP = SOURCE_APP_DEFAULT
    /\ STORE_RAW_IP = FALSE
    /\ flags_type \in {"ConsentFlags", "dict"}
    /\ COLLECT_PII \in BOOLEAN
    /\ guests = [g \in GuestIds |-> NoGuest]
    /\ guest_profiles = [g \in GuestIds |-> NoProfile]
    /\ \E seeded \in BOOLEAN :
          /\ sessions = IF seeded THEN SessionRows ELSE {}
          /\ chat_sessions = IF seeded THEN ChatSessionRows ELSE {}
          /\ service_requests = IF seeded THEN ServiceRequestRows ELSE {}
    /\ workers = <<>>
    /\ events = <<>>
    /\ next_id = 1
    /\ request = NoRequest
    /\ response = NoResponse
    /\ calls = <<>>

\* the handler's outcome becomes the state: tables as committed, answer sent
GuestHandle(req, out) ==
    /\ request' = req
    /\ response' = out.resp
    /\ calls' = out.calls
    /\ guests' = out.db.guests
    /\ guest_profiles' = out.db.guest_profiles
    /\ events' = out.db.events
    /\ sessions' = out.db.sessions
    /\ chat_sessions' = out.db.chat_sessions
    /\ service_requests' = out.db.service_requests
    /\ pc' = "answered"
    /\ UNCHANGED <<redactVars, jsonVars, sigVars, configVars, privacyVars, next_id,
                   COLLECT_PII, workers>>

ConsentRequest(guest_id, consent_given, db) ==
    [kind |-> "consent", guest_id |-> guest_id, consent_given |-> consent_given, db |-> db]

ProfileRequest(guest_id, name, db) ==
    [kind |-> "profile", guest_id |-> guest_id, name |-> name, db |-> db]

DeleteRequest(guest_id, token, fail_at) ==
    [kind |-> "delete", guest_id |-> guest_id, token |-> token, fail_at |-> fail_at]

\* the tokens a caller may present: the one of either guest, or another text
Tokens == {PrivacyToken(g) : g \in GuestIds} \cup {<<"privacy_token">>}

\* where delete_guest_data may fail: nowhere, at the third DELETE, at commit
FailPoints == {0, 3, 7}

\* events of either guest that differ in what the gate stages look at
GuestEventRequests ==
    { IngestRequest(IngestBody(a, c, NoIP, g), dnt, IPv4(198, 51, 100, 7), "BM", "ok") :
        a \in {"CBC-Agent", "CBC-Staging"}, c \in {"True", "False"}, g \in GuestIds,
        dnt \in {"1", "absent"} }

UpdateConsent ==
    /\ pc = "serve"
    /\ \E g \in GuestIds, c \in {"True", "False"}, o \in {"ok", "fail"} :
          GuestHandle(ConsentRequest(g, c, o),
                      update_consent([guest_id |-> g, consent_given |-> c], Db, o))

UpdateGuestProfile ==
    /\ pc = "serve"
    /\ \E g \in GuestIds, o \in {"ok", "fail"} :
          GuestHandle(ProfileRequest(g, "n1", o),
                      update_guest_profile([guest_id |-> g, name |-> "n1"],
                                           COLLECT_PII, Db, o))

DeleteGuestData ==
    /\ pc = "serve"
    /\ \E g \in GuestIds, token \in Tokens, fail_at \in FailPoints :
          GuestHandle(DeleteRequest(g, token, fail_at),
                      delete_guest_data(g, token, Db, fail_at))

\* the gate also looks up the consent stored for the guest and skips the
\* event when it is false
IngestGuestEventByStoredConsent ==
    /\ pc = "serve"
    /\ Len(events) < MaxEvents /\ next_id <= MaxEvents
    /\ \E req \in GuestEventRequests :
          LET stored == get_guest_consent(Db, req.body.guest_pseudonymous_id) IN
          Handle(req, IF stored.present /\ stored.consent_given = "False"
                      THEN Returned(NoConsentResponse, <<"get_guest_consent">>, <<>>)
                      ELSE ingest_event(req, SOURCE_APP, STORE_RAW_IP, flags_type, next_id))

\* POST /ingest/event for an event of a guest: ingest_event is handed the
\* request and the configuration, and no table is read
IngestGuestEvent ==
    /\ pc = "serve"
    /\ Len(events) < MaxEvents /\ next_id <= MaxEvents
    /\ \E req \in GuestEventRequests :
          Handle(req, ingest_event(req, SOURCE_APP, STORE_RAW_IP, flags_type, next_id))

GuestNext ==
    UpdateConsent \/ UpdateGuestProfile \/ DeleteGuestData \/ IngestGuestEvent \/ Complete

SpecGuest == GuestInit /\ [][GuestNext]_vars

\* ------------------------------------------------------------------------
\* Claims
\* ------------------------------------------------------------------------
Answered(kind) == pc = "answered" /\ request.kind = kind

\* the address ingest_event works on: envelope.ip_raw or request.client.host
ClientIp(req) == IF req.body.ip_raw # NoIP THEN req.body.ip_raw ELSE req.client

\* the request reaches the consent gate: its body is a valid EventEnvelope of
\* the configured application, carries no do-not-track signal, and the address
\* stage before the gate ends normally
ReachesConsentGate(req) ==
    /\ EventEnvelopeValid(req.body)
    /\ req.body.app_id = SOURCE_APP
    /\ req.headers.DNT # "1"
    /\ ClientIp(req) # NoIP
    /\ req.geo # "error"

\* the row the last request committed
LastRow == events[Len(events)]

\* C1: an event whose consent declaration does not have analytics
\* explicitly true is answered 200 {"status": "ok", "consent": false}, and
\* db.store_event is not called for it.
C1_NoConsentSkipped ==
    (Answered("ingest") /\ ReachesConsentGate(request)
        /\ request.body.analytics # "True")
    => (response = NoConsentResponse /\ "store_event" \notin Range(calls))

C4_DntStopsPipeline ==
    [][ (pc = "serve" /\ pc' = "answered" /\ request'.kind = "ingest"
            /\ EventEnvelopeValid(request'.body)
            /\ request'.body.app_id = SOURCE_APP
            /\ request'.headers.DNT = "1")
        => (response' = DntResponse /\ calls' = <<>> /\ events' = events) ]_vars

\* a do-not-track request that carries an address and no analytics consent
\* has been answered
C4_Witness ==
    /\ Answered("ingest")
    /\ request.headers.DNT = "1"
    /\ request.body.app_id = SOURCE_APP
    /\ request.body.ip_raw # NoIP
    /\ request.body.analytics = "False"
    /\ response = DntResponse

\* C5: an event whose app_id differs from the configured source application
\* is answered HTTP 400, and nothing is stored.
C5_MismatchRejected400 ==
    (Answered("ingest") /\ request.body.app_id # SOURCE_APP)
    => (response.code = 400 /\ "store_event" \notin Range(calls))

\* C6: a webhook whose supplied signature does not verify is answered HTTP
\* 401, and db.store_webhook is not called for it.
C6_BadSignature401 ==
    (Answered("webhook")
        /\ ~verify_webhook_signature(WebhookDict(request.body),
                                     ProvidedSignature(request), HMAC_SECRET))
    => (response.code = 401 /\ "store_webhook" \notin Range(calls))

\* C7: a webhook signed by the sender, with the HMAC-SHA256 of the
\* key-sorted serialisation of its payload, is accepted: a service request
\* with a well-formed payload is answered 200 {"status": "ok"}.
C7_SenderSignedAccepted ==
    (Answered("webhook")
        /\ ProvidedSignature(request) = generate_webhook_signature(request.body.payload)
        /\ request.webhook_type = "service_request"
        /\ ServiceRequestCreatedValid(request.body.payload)
        /\ request.db = "ok")
    => response = OkResponse

\* C8: the signature does not depend on the order of the keys of the maps
\* of the payload, at any nesting level.
C8_KeyOrderIndependent == pc = "signed" => sigA = sigB

\* a payload and a reordering of it, different at the top level and inside
\* a nested map, have been signed
C8_Witness ==
    /\ pc = "signed"
    /\ Len(payload.es) >= 2
    /\ payload.es[1].k # variant.es[1].k
    /\ "meta" \in KeysOf(payload)
    /\ Len(Get(payload, "meta").es) = 2
    /\ Get(payload, "meta") # Get(variant, "meta")

\* C9: the output of redact_json holds, at no depth, a map entry whose key
\* is in the sensitive-key set with a value other than the placeholder.
C9_NoSensitiveLeft == pc = "done" => ~HasUnredacted(result, DefaultFields)

\* C10: redacting an already redacted text changes nothing:
\* redact_pii(redact_pii(s)) = redact_pii(s) for every text s.
C10_Idempotent == pc = "twice" => twice = once

\* a text in which the placeholder is followed directly by the rest of an
\* address has been redacted twice
C10_Witness ==
    /\ pc = "twice"
    /\ text = EmailText \o <<"@", "a", ".", "c", "o">>
    /\ once = EMAIL_REDACTED \o <<"@", "a", ".", "c", "o">>

\* C11: for a valid IPv4 address truncate_ip gives the address with the last
\* octet zero and the first three octets unchanged; for a valid IPv6 address
\* it gives the address with the top 48 bits unchanged and every bit below
\* them zero.
C11_TruncateKeepsPrefix ==
    pc # "start" =>
        LET t == ip_data_a.ip_trunc IN
        /\ ip_a.kind = "v4" =>
              /\ t.kind = "v4" /\ Len(t.words) = 4
              /\ \A i \in 1..3 : t.words[i] = ip_a.words[i]
              /\ t.words[4] = 0
        /\ ip_a.kind = "v6" =>
              /\ t.kind = "v6" /\ Len(t.words) = 8
              /\ \A i \in 1..3 : t.words[i] = ip_a.words[i]
              /\ \A i \in 4..8 : t.words[i] = 0

\* an IPv6 address with bits set on both sides of the 48-bit boundary has
\* been truncated
C11_Witness ==
    /\ pc = "done"
    /\ ip_a.kind = "v6"
    /\ ip_a.words[3] = 65535 /\ ip_a.words[4] = 65535 /\ ip_a.words[8] = 1
    /\ ip_data_a.ip_trunc.words = <<8193, 3512, 65535, 0, 0, 0, 0, 0>>

\* C12: an event with app_id "CBC-Agent", analytics consent true, client
\* address 203.0.113.77 and no do-not-track signal is stored, and the stored
\* record's prefix is the text 203.0.113.0/24 with a non-empty hash.
C12_StoredPrefixWithLength ==
    (Answered("ingest") /\ ~STORE_RAW_IP
        /\ ReachesConsentGate(request)
        /\ request.body.app_id = "CBC-Agent"
        /\ request.body.analytics = "True"
        /\ ClientIp(request) = IPv4(203, 0, 113, 77)
        /\ request.headers.DNT = "absent"
        /\ request.db = "ok")
    => /\ response.event_id # 0
       /\ "store_event" \in Range(calls)
       /\ str_IPv4Address(LastRow.ip_data.ip_trunc)
            = <<"2", "0", "3", ".", "0", ".", "1", "1", "3", ".", "0", "/", "2", "4">>
       /\ LastRow.ip_data.ip_hash # NoHash

\* C13: for an address text that parses neither as IPv4 nor as IPv6,
\* process_ip_data gives the sentinel prefix 0.0.0.0 together with an empty
\* hash.
C13_UnparseableEmptyHash ==
    (pc # "start" /\ ip_a.kind = "bad")
    => /\ ip_data_a.ip_trunc = IPv4(0, 0, 0, 0)
       /\ ip_data_a.ip_hash = NoHash

\* C14: two calls with the same salt and the same address, however the
\* address is spelled, give the same hash.
C14_HashOfCanonicalForm ==
    (pc = "done" /\ SameAddress(ip_a, ip_b))
    => ip_data_a.ip_hash = ip_data_b.ip_hash

\* C15: validate_consent returns the boolean false when the analytics field
\* is absent, null or false and the boolean true only when it is true, for
\* mappings and for the consent declaration ingest_event passes (the model
\* ConsentFlags).
C15_ConsentIsBoolean ==
    pc = "done" =>
        /\ consent \in {"True", "False"}
        /\ consent = "True" <=> consent_flags.analytics = "True"

\* C16: when get_geo_data raises for a valid, consented event, ingest_event
\* goes on without geo enrichment: the event is stored with its truncated
\* prefix and hash and the caller gets the stored answer.
C16_GeoFailureAbsorbed ==
    (Answered("ingest") /\ ~STORE_RAW_IP
        /\ EventEnvelopeValid(request.body)
        /\ request.body.app_id = SOURCE_APP
        /\ request.headers.DNT # "1"
        /\ ClientIp(request) # NoIP
        /\ request.body.analytics = "True"
        /\ request.geo = "error"
        /\ request.db = "ok")
    => /\ response.code = 200
       /\ response.event_id # 0
       /\ "store_event" \in Range(calls)
       /\ LastRow.ip_data = process_ip_data(ClientIp(request), IP_SALT)

C18_RetentionTable ==
    pc = "done" =>
        /\ event_type \notin DOMAIN retention_map => days = 365
        /\ (event_type = "consent_change" /\ earlier_type # "consent_change")
              => days > earlier_days
        /\ event_type = earlier_type => days = earlier_days

\* the period of consent_change has been asked after that of an event type
\* the table does not know
C18_Witness ==
    /\ pc = "done"
    /\ earlier_type = "chat_message" /\ earlier_days = 365
    /\ event_type = "consent_change" /\ days = 2555

\* the three-way outcome an answer stands for; an answer that is none of
\* them is an internal error
Outcome(resp) ==
    CASE resp.code = 200 /\ resp.event_id # 0 -> "Stored"
      [] resp = DntResponse -> "Skipped(dnt)"
      [] resp = NoConsentResponse -> "Skipped(no_consent)"
      [] resp.code >= 400 /\ resp.code < 500 -> "Rejected"
      [] OTHER -> "InternalError"

\* the outcome decided by the first stage that stops, in the order identity
\* check, do-not-track, consent
FirstStopOutcome(req) ==
    IF req.body.app_id # SOURCE_APP THEN "Rejected"
    ELSE IF req.headers.DNT = "1" THEN "Skipped(dnt)"
    ELSE IF req.body.analytics # "True" THEN "Skipped(no_consent)"
    ELSE "Stored"

\* C19: every ingest request whose collaborators work (an address is known,
\* geo lookup and database answer) ends in the outcome of the first stage
\* that stops: Rejected if the app_id mismatches, else Skipped(dnt) if DNT is
\* set, else Skipped(no_consent) if analytics consent is not true, else
\* Stored.
C19_FirstStopDecides ==
    (Answered("ingest")
        /\ request.body.analytics \in {"True", "False"}
        /\ ClientIp(request) # NoIP
        /\ request.geo # "error"
        /\ request.db = "ok")
    => Outcome(response) = FirstStopOutcome(request)

C23_RecognisedTypesStored ==
    (Answered("webhook")
        /\ verify_webhook_signature(WebhookDict(request.body), ProvidedSignature(request),
                                    HMAC_SECRET)
        /\ request.db = "ok"
        /\ (request.webhook_type = "service_request"
                => ServiceRequestCreatedValid(request.body.payload))
        /\ (request.webhook_type = "chat_session"
                => ChatStartValid(request.body.payload)))
    => IF request.webhook_type \in {"service_request", "chat_session", "booking"}
       THEN /\ response = OkResponse
            /\ Cardinality({i \in 1..Len(calls) : calls[i] = "store_webhook"}) = 1
       ELSE /\ response.code = 400
            /\ "store_webhook" \notin Range(calls)

\* C24: two concurrent update_guest_profile calls for one guest who has
\* given consent and has no profile row both end with {"status": "ok"}, under
\* every interleaving of their checks and writes, and one profile row of the
\* guest exists afterwards.
C24_ConcurrentUpsertsSucceed ==
    (/\ pc = "workers"
     /\ COLLECT_PII
     /\ \A w \in Workers : workers[w].pc = "done" /\ workers[w].db_outcome = "ok"
                             /\ ~workers[w].existed
     /\ workers[1].profile.guest_id = workers[2].profile.guest_id
     /\ guests[workers[1].profile.guest_id] = GuestRow("True"))
    => /\ \A w \in Workers : workers[w].resp = OkResponse
       /\ guest_profiles[workers[1].profile.guest_id].present

\* C25: a profile request for a guest whose stored consent is not true (no
\* consent row, or consent_given false after update_consent) never calls
\* upsert_guest_profile and is answered 403.
C25_NoConsentNoProfile ==
    (Answered("profile") /\ guests[request.guest_id] # GuestRow("True"))
    => /\ "upsert_guest_profile" \notin Range(calls)
       /\ response.code = 403

\* a step that handles a request of the kind
Handles(kind) == pc = "serve" /\ pc' = "answered" /\ request'.kind = kind

\* table by table: the guest's rows are gone, every other row is as before
OnlyGuestDeleted(g) ==
    /\ guests'[g] = NoGuest /\ guest_profiles'[g] = NoProfile
    /\ \A h \in GuestIds \ {g} :
          guests'[h] = guests[h] /\ guest_profiles'[h] = guest_profiles[h]
    /\ events' = SelectSeq(events, LAMBDA row : row.guest_id # g)
    /\ sessions' = {row \in sessions : row.guest_id # g}
    /\ chat_sessions' = {row \in chat_sessions : row.guest_id # g}
    /\ service_requests' = {row \in service_requests : row.guest_id # g}

\* C26: delete_guest_data runs only with the token of the guest; when it
\* runs to the end the guest's rows are gone from all six tables and every
\* other guest's rows are as before; when it fails, or with an invalid token,
\* no row of any table is deleted.
C26_DeletionAllOrNothing ==
    [][Handles("delete") =>
         LET g == request'.guest_id
             valid == request'.token = <<"privacy_">> \o g \o <<"_token">>
         IN  /\ ("delete_guest_data" \in Range(calls')) => valid
             /\ (valid /\ request'.fail_at = 0) => OnlyGuestDeleted(g)
             /\ (~valid \/ request'.fail_at # 0) => UNCHANGED <<guestTables, events>>]_vars

\* a deletion has removed one guest's rows from every table while rows of the
\* other guest remain in every table
C26_Witness ==
    /\ Answered("delete") /\ response = DeletedResponse
    /\ \E h \in GuestIds \ {request.guest_id} :
          /\ guests[h].present /\ guest_profiles[h].present
          /\ \E i \in 1..Len(events) : events[i].guest_id = h
          /\ \E row \in sessions : row.guest_id = h
    /\ \A i \in 1..Len(events) : events[i].guest_id # request.guest_id
    /\ sessions # SessionRows

\* what the request and the configuration alone say about storing
StoreDecision(req) ==
    /\ req.body.app_id = SOURCE_APP
    /\ req.headers.DNT # "1"
    /\ flags_type = "dict"
    /\ req.body.analytics = "True"

====
